---- MODULE Spec2Model ----
(***************************************************************************)
(* Model of src/main.py: "Opdatering af kommunekode på leverandør i Nexus". *)
(* One invocation of the script either populates the work queue (--queue)  *)
(* or drains it (process_workqueue).  The Nexus platform, the work queue,  *)
(* the reporting endpoint and the tracker are the environment: their calls *)
(* are logged, and each may raise.                                          *)
(***************************************************************************)
EXTENDS Integers, Sequences, FiniteSets, TLC

\* ------------------------------------------------------------------ bounds
NumSuppliers == 2      \* suppliers known to Nexus
MaxRuns == 4           \* invocations of the script in one behaviour
MaxFaults == 1         \* external calls that raise in one behaviour
MaxChanges == 1        \* changes made to Nexus by somebody else

\* ------------------------------------------------------- Python values
\* A JSON scalar: None, a str (its characters) or an int.
None == [t |-> "None", s |-> <<>>, n |-> 0]
PyStr(chars) == [t |-> "str", s |-> chars, n |-> 0]
PyInt(k) == [t |-> "int", s |-> <<>>, n |-> k]

Digit(d) == <<"0", "1", "2", "3", "4", "5", "6", "7", "8", "9">>[d + 1]

RECURSIVE Digits(_)
Digits(k) == IF k < 10 THEN <<Digit(k)>> ELSE Append(Digits(k \div 10), Digit(k % 10))

\* Python's str(): the identity on a str, the decimal digits of an int.
Str(v) ==
    CASE v.t = "str" -> v
      [] v.t = "int" -> PyStr(Digits(v.n))
      [] OTHER -> PyStr(<<"N", "o", "n", "e">>)

\* ------------------------------------------------------------ input data
Ids == 1 .. NumSuppliers

Address(code, postal) == [administrativeAreaCode |-> code, postalCode |-> postal]

\* What Nexus may hold for one supplier: the listing entry's name and active
\* flag ("True", "False", or "None" when the key is absent) and the address
\* of the full record.
Profiles ==
    { [name |-> "Plejehjem", active |-> "True", address |-> Address(PyStr(Digits(999)), PyStr(Digits(5000)))],
      [name |-> "Plejehjem", active |-> "True", address |-> Address(PyStr(Digits(999)), None)],
      [name |-> "Plejehjem", active |-> "True", address |-> Address(PyStr(Digits(461)), PyStr(Digits(9999)))],
      [name |-> "Plejehjem", active |-> "True", address |-> Address(PyStr(Digits(999)), PyInt(5000))],
      [name |-> "Vognmand", active |-> "True", address |-> Address(PyStr(Digits(999)), PyStr(Digits(5000)))],
      [name |-> "Plejehjem", active |-> "False", address |-> Address(PyStr(Digits(999)), PyStr(Digits(5000)))],
      [name |-> "Plejehjem", active |-> "None", address |-> Address(PyStr(Digits(999)), PyStr(Digits(5000)))] }

\* Municipality codes somebody else may write to a record.
AreaCodes == {PyStr(Digits(461)), PyStr(Digits(999))}

\* postnumre_med_kommunekode.json: absent, or an array of rows.
MappingFiles ==
    { [exists |-> FALSE, rows |-> <<>>],
      [exists |-> TRUE, rows |-> <<[Postnr |-> PyStr(Digits(5000)), Kommunenr |-> PyStr(Digits(461))]>>],
      [exists |-> TRUE, rows |-> <<[Postnr |-> PyInt(5000), Kommunenr |-> PyInt(999)],
                                   [Postnr |-> PyStr(Digits(5000)), Kommunenr |-> PyStr(Digits(461))]>>] }

\* regler.get("Irrelevante leverandører", []): the names to skip.
ExclusionLists == { {}, {"Vognmand"} }

Throws == {"none", "WorkItemError", "Exception"}

\* ----------------------------------------------------------------- state
VARIABLES
    nexusRefs,      \* Nexus: the bulk supplier list, a sequence of {id, name, active}
    nexusRec,       \* Nexus: id -> the full record a resolve returns
    mappingFile,    \* the static mapping file on disk
    regler,         \* the loaded Excel mapping's "Irrelevante leverandører"
    queue,          \* the work queue: every item with its status
    pc,             \* where the running invocation stands ("idle": none runs)
    run,            \* what the running invocation has done so far
    hist,           \* the finished invocations, oldest first
    aktive_leverandoerer, idx, koe_data,        \* locals of populate_queue
    leverandoerer, cur, kommunekode, leverandoer, exc,   \* locals of process_workqueue
    faults, changes

vars == <<nexusRefs, nexusRec, mappingFile, regler, queue, pc, run, hist,
          aktive_leverandoerer, idx, koe_data,
          leverandoerer, cur, kommunekode, leverandoer, exc, faults, changes>>

NoLev == [id |-> 0, name |-> "", address |-> Address(None, None)]
NoData == [leverandoer_id |-> 0, kommunekode |-> None, postnummer |-> None]
NoRep == [group |-> "", Leverandoer |-> <<>>, Postnummer |-> None]
NoExc == [kind |-> "none", msg |-> ""]
NewRun(mode) == [mode |-> mode, resolved |-> <<>>, outcome |-> "running",
                 error |-> "", payload |-> NoData]

Ref(i, p) == [id |-> i, name |-> p.name, active |-> p.active]
Rec(i, p) == [id |-> i, name |-> p.name, address |-> p.address]

Init ==
    \E prof \in [Ids -> Profiles] :
        /\ nexusRefs = [i \in Ids |-> Ref(i, prof[i])]
        /\ nexusRec = [i \in Ids |-> Rec(i, prof[i])]
        /\ mappingFile \in MappingFiles
        /\ regler \in ExclusionLists
        /\ queue = <<>>
        /\ pc = "idle"
        /\ run = NewRun("none")
        /\ hist = <<>>
        /\ aktive_leverandoerer = <<>>
        /\ idx = 1
        /\ koe_data = [bound |-> FALSE, v |-> NoData]
        /\ leverandoerer = <<>>
        /\ cur = 0
        /\ kommunekode = None
        /\ leverandoer = NoLev
        /\ exc = NoExc
        /\ faults = 0
        /\ changes = 0

\* ------------------------------------------------------------ work queue
\* Workqueue.add_item: a new item, waiting.
NewItem(data, reference) ==
    [data |-> data, reference |-> reference, status |-> "new", message |-> "",
     ends |-> <<>>, calls |-> <<>>, by |-> 0]

\* Workqueue.clear_workqueue("new"): drops the items still waiting.
ClearNew(q) == SelectSeq(q, LAMBDA it : it.status # "new")

\* The end of an invocation: back to idle, its record appended to hist.
EndRun(r, outcome, error, payload) ==
    /\ pc' = "idle"
    /\ hist' = Append(hist, [r EXCEPT !.outcome = outcome, !.error = error,
                                         !.payload = payload])
    /\ run' = NewRun("none")

\* An external call raises only while the fault budget lasts.
MayRaise(thr) == thr = "none" \/ faults < MaxFaults
Count(thr) == IF thr = "none" THEN faults ELSE faults + 1

\* ------------------------------------------------------- populate_queue
\* A filter that keeps whatever is not the value False.
AktiveNotFalse(levs) == SelectSeq(levs, LAMBDA item : item.active # "False")

\* line 34: the listing entries whose active field is the value True.
Aktive(levs) == SelectSeq(levs, LAMBDA item : item.active = "True")

\* A loop that skips nobody.
IsIrrelevantNever(lev, irrelevante) == FALSE

\* line 38: the supplier's name is in the exclusion list.
IsIrrelevant(lev, irrelevante) == lev.name \in irrelevante

\* A payload with the municipality code in the place of the postal code.
KoeDataSwapped(obj) ==
    [leverandoer_id |-> obj.id,
     kommunekode |-> obj.address.postalCode,
     postnummer |-> obj.address.administrativeAreaCode]

\* lines 43-47: the payload of a queue item, from the resolved record.
KoeData(obj) ==
    [leverandoer_id |-> obj.id,
     kommunekode |-> obj.address.administrativeAreaCode,
     postnummer |-> obj.address.postalCode]

\* line 50: f"{id} - {name}" of the listing entry.
Label(lev) == <<Digits(lev.id), " - ", lev.name>>

\* A --queue branch that does not clear the queue first.
StartQueueNoClear ==
    /\ pc = "idle"
    /\ Len(hist) < MaxRuns
    /\ aktive_leverandoerer' = Aktive(nexusRefs)
    /\ idx' = 1
    /\ koe_data' = [bound |-> FALSE, v |-> NoData]
    /\ run' = NewRun("queue")
    /\ pc' = "populate"
    /\ UNCHANGED <<nexusRefs, nexusRec, mappingFile, regler, queue, hist, leverandoerer,
                   cur, kommunekode, leverandoer, exc, faults, changes>>

\* python main.py --queue, lines 202-204 and 30-34: clear the waiting items,
\* read the exclusion list, fetch the suppliers and keep the active ones.
StartQueue ==
    /\ pc = "idle"
    /\ Len(hist) < MaxRuns
    /\ queue' = ClearNew(queue)
    /\ aktive_leverandoerer' = Aktive(nexusRefs)
    /\ idx' = 1
    /\ koe_data' = [bound |-> FALSE, v |-> NoData]
    /\ run' = NewRun("queue")
    /\ pc' = "populate"
    /\ UNCHANGED <<nexusRefs, nexusRec, mappingFile, regler, hist, leverandoerer,
                   cur, kommunekode, leverandoer, exc, faults, changes>>

\* lines 52-56: the handler of populate's try.  It formats koe_data, which is
\* unbound until the first payload has been built: then the handler itself
\* raises UnboundLocalError; otherwise it raises WorkItemError over koe_data.
PopulateExcept(r, kd) ==
    IF kd.bound
    THEN EndRun(r, "raised", "WorkItemError", kd.v)
    ELSE EndRun(r, "raised", "UnboundLocalError", NoData)

\* A loop whose handler logs the failure and goes on with the next supplier.
PopulateStepContinue(thr) ==
    /\ pc = "populate"
    /\ idx <= Len(aktive_leverandoerer)
    /\ MayRaise(thr)
    /\ LET lev == aktive_leverandoerer[idx]
           obj == nexusRec[lev.id]
           kd == [bound |-> TRUE, v |-> KoeData(obj)]
           r == [run EXCEPT !.resolved = Append(@, lev.id)]
       IN  IF IsIrrelevant(lev, regler)
           THEN /\ thr = "none"
                /\ UNCHANGED <<queue, koe_data, run, faults>>
           ELSE CASE thr = "hent_fra_reference" ->
                       /\ run' = r
                       /\ faults' = faults + 1
                       /\ UNCHANGED <<queue, koe_data>>
                  [] thr = "add_item" ->
                       /\ koe_data' = kd
                       /\ run' = r
                       /\ faults' = faults + 1
                       /\ UNCHANGED queue
                  [] OTHER ->
                       /\ koe_data' = kd
                       /\ queue' = Append(queue, NewItem(kd.v, Label(lev)))
                       /\ run' = r
                       /\ UNCHANGED faults
    /\ idx' = idx + 1
    /\ UNCHANGED <<nexusRefs, nexusRec, mappingFile, regler, aktive_leverandoerer,
                   leverandoerer, cur, kommunekode, leverandoer, exc, changes, pc, hist>>

\* lines 36-51: one iteration of the loop over the active suppliers.
\* thr names the call that raises in it, if any.
PopulateStep(thr) ==
    /\ pc = "populate"
    /\ idx <= Len(aktive_leverandoerer)
    /\ MayRaise(thr)
    /\ LET lev == aktive_leverandoerer[idx]
           obj == nexusRec[lev.id]
           kd == [bound |-> TRUE, v |-> KoeData(obj)]
           r == [run EXCEPT !.resolved = Append(@, lev.id)]
       IN  IF IsIrrelevant(lev, regler)
           THEN /\ thr = "none"
                /\ idx' = idx + 1
                /\ UNCHANGED <<queue, koe_data, run, pc, hist, faults>>
           ELSE CASE thr = "hent_fra_reference" ->
                       /\ PopulateExcept(r, koe_data)
                       /\ faults' = faults + 1
                       /\ UNCHANGED <<queue, koe_data, idx>>
                  [] thr = "add_item" ->
                       /\ koe_data' = kd
                       /\ PopulateExcept(r, kd)
                       /\ faults' = faults + 1
                       /\ UNCHANGED <<queue, idx>>
                  [] OTHER ->
                       /\ koe_data' = kd
                       /\ queue' = Append(queue, NewItem(kd.v, Label(lev)))
                       /\ run' = r
                       /\ idx' = idx + 1
                       /\ UNCHANGED <<pc, hist, faults>>
    /\ UNCHANGED <<nexusRefs, nexusRec, mappingFile, regler, aktive_leverandoerer,
                   leverandoerer, cur, kommunekode, leverandoer, exc, changes>>

\* line 205: the loop is over, exit(0).
PopulateDone ==
    /\ pc = "populate"
    /\ idx > Len(aktive_leverandoerer)
    /\ EndRun(run, "exit 0", "", NoData)
    /\ UNCHANGED <<nexusRefs, nexusRec, mappingFile, regler, queue,
                   aktive_leverandoerer, idx, koe_data,
                   leverandoerer, cur, kommunekode, leverandoer, exc, faults, changes>>

Populate == \E thr \in {"none", "hent_fra_reference", "add_item"} : PopulateStep(thr)

\* ----------------------------------------------------- process_workqueue
Event(op, lev, rep, raised) == [op |-> op, lev |-> lev, rep |-> rep, raised |-> raised]

\* The item being processed, with one more external call in its log.
Logged(q, ev) == [q EXCEPT ![cur].calls = Append(@, ev)]

\* The exception object an external call raises; msg is str(e).
Raised(kind, op) == [kind |-> kind, msg |-> op]

\* lines 116-123: the index of the first row whose Postnr, as a str, equals
\* the item's postnummer (0: there is none).
FirstRow(rows, postnummer) ==
    LET hits == {i \in 1 .. Len(rows) : Str(rows[i].Postnr) = postnummer}
    IN  IF hits = {} THEN 0 ELSE CHOOSE i \in hits : \A j \in hits : i <= j

\* A lookup without the test for a missing postnummer.
kontroller_kommunekode_NoNoneTest(item, data, rows) ==
    LET i == FirstRow(rows, data.postnummer)
    IN  IF i = 0
        THEN [ret |-> None,
              report |-> [group |-> "Postnummer uden kommunekode",
                          Leverandoer |-> item.reference,
                          Postnummer |-> data.postnummer]]
        ELSE [ret |-> Str(rows[i].Kommunenr), report |-> NoRep]

\* A lookup that reports a missing postnummer but not an unknown one.
kontroller_kommunekode_NoReport(item, data, rows) ==
    IF data.postnummer = None
    THEN [ret |-> None,
          report |-> [group |-> "Manglende postnummer",
                      Leverandoer |-> item.reference, Postnummer |-> None]]
    ELSE LET i == FirstRow(rows, data.postnummer)
         IN  IF i = 0
             THEN [ret |-> None, report |-> NoRep]
             ELSE [ret |-> Str(rows[i].Kommunenr), report |-> NoRep]

\* lines 97-145, kontroller_kommunekode: what it returns, and the report it
\* sends (NoRep: none).  A report that raises changes neither.
kontroller_kommunekode(item, data, rows) ==
    IF data.postnummer = None
    THEN [ret |-> None,
          report |-> [group |-> "Manglende postnummer",
                      Leverandoer |-> item.reference, Postnummer |-> None]]
    ELSE LET i == FirstRow(rows, data.postnummer)
         IN  IF i = 0
             THEN [ret |-> None,
                   report |-> [group |-> "Postnummer uden kommunekode",
                               Leverandoer |-> item.reference,
                               Postnummer |-> data.postnummer]]
             ELSE [ret |-> Str(rows[i].Kommunenr), report |-> NoRep]

\* A try around report that lets the exception through.
NotSwallowed(e) == e

\* lines 101-114 and 129-143: what is still raised once the try around report
\* is over.  "except Exception" logs it and "finally: return None" drops
\* whatever is left, so nothing is.
Swallowed(e) == NoExc

\* A search that settles for the first entry of the bulk list.
FindLeverandoerAny(data, levs) == IF levs = <<>> THEN 0 ELSE 1

\* lines 149-152: the index in the bulk list of the first entry with the
\* item's leverandoer_id (0: there is none).
FindLeverandoer(data, levs) ==
    LET hits == {i \in 1 .. Len(levs) : levs[i].id = data.leverandoer_id}
    IN  IF hits = {} THEN 0 ELSE CHOOSE i \in hits : \A j \in hits : i <= j

\* A comparison of the looked-up code with the item's snapshot code.
NeedsUpdateSnapshot(lev, kode) == queue[cur].data.kommunekode # kode

\* A comparison that always asks for the update.
NeedsUpdateAlways(lev, kode) == TRUE

\* line 86: the live record's municipality code is not the looked-up one.
NeedsUpdate(lev, kode) == lev.address.administrativeAreaCode # kode

\* An update that writes a fresh address holding the looked-up code alone.
WithKommunekodeAlone(lev, kode) ==
    [lev EXCEPT !.address = [administrativeAreaCode |-> kode, postalCode |-> None]]

\* An update that forgets to set the looked-up code.
WithKommunekodeUnset(lev, kode) == lev

\* line 87: the live record with the looked-up municipality code.
WithKommunekode(lev, kode) == [lev EXCEPT !.address.administrativeAreaCode = kode]

\* An except clause that takes nothing.
IsCaughtNever(e) == FALSE

\* line 91: the except clause takes a WorkItemError and nothing else.
IsCaught(e) == e.kind = "WorkItemError"

\* line 94, WorkItem.fail(message).
Fail(item, message) ==
    [item EXCEPT !.status = "failed", !.message = message, !.ends = Append(@, "failed")]

\* line 70, the end of "with item:": an exception on its way out fails the
\* item with its message; an item still in progress is completed.
ItemExit(item, e) ==
    IF e.kind # "none"
    THEN Fail(item, e.msg)
    ELSE IF item.status = "in progress"
         THEN [item EXCEPT !.status = "completed", !.ends = Append(@, "completed")]
         ELSE item

\* A start that goes on to the loop whether or not the mapping file loads.
StartProcessAnyway ==
    /\ pc = "idle"
    /\ Len(hist) < MaxRuns
    /\ leverandoerer' = nexusRefs
    /\ run' = NewRun("process")
    /\ pc' = "loop"
    /\ hist' = hist
    /\ cur' = 0
    /\ kommunekode' = None
    /\ leverandoer' = NoLev
    /\ UNCHANGED <<nexusRefs, nexusRec, mappingFile, regler, queue,
                   aktive_leverandoerer, idx, koe_data, exc, faults, changes>>

\* python main.py, lines 208 and 59-67: fetch the bulk list and load the
\* mapping file; without the file, open() raises and the invocation ends.
StartProcess ==
    /\ pc = "idle"
    /\ Len(hist) < MaxRuns
    /\ leverandoerer' = nexusRefs
    /\ IF mappingFile.exists
       THEN /\ run' = NewRun("process")
            /\ pc' = "loop"
            /\ hist' = hist
       ELSE EndRun(NewRun("process"), "raised", "FileNotFoundError", NoData)
    /\ cur' = 0
    /\ kommunekode' = None
    /\ leverandoer' = NoLev
    /\ UNCHANGED <<nexusRefs, nexusRec, mappingFile, regler, queue,
                   aktive_leverandoerer, idx, koe_data, exc, faults, changes>>

\* The first waiting item of the queue (0: none waits).
NextNew(q) ==
    LET waiting == {i \in 1 .. Len(q) : q[i].status = "new"}
    IN  IF waiting = {} THEN 0 ELSE CHOOSE i \in waiting : \A j \in waiting : i <= j

\* lines 69-71: the loop takes the next waiting item and enters "with item".
Dequeue ==
    /\ pc = "loop"
    /\ NextNew(queue) # 0
    /\ cur' = NextNew(queue)
    /\ queue' = [queue EXCEPT ![NextNew(queue)].status = "in progress",
                              ![NextNew(queue)].by = Len(hist) + 1]
    /\ kommunekode' = None
    /\ leverandoer' = NoLev
    /\ pc' = "kommunekode"
    /\ UNCHANGED <<nexusRefs, nexusRec, mappingFile, regler, run, hist,
                   aktive_leverandoerer, idx, koe_data, leverandoerer, exc,
                   faults, changes>>

\* line 69: no item waits, the loop and the invocation end.
ProcessDone ==
    /\ pc = "loop"
    /\ NextNew(queue) = 0
    /\ EndRun(run, "exit 0", "", NoData)
    /\ UNCHANGED <<nexusRefs, nexusRec, mappingFile, regler, queue,
                   aktive_leverandoerer, idx, koe_data,
                   leverandoerer, cur, kommunekode, leverandoer, exc, faults, changes>>

\* lines 74-79: look the municipality code up; without one, report (a report
\* that raises is logged and dropped) and go on to the next item.
KontrollerKommunekode(thr) ==
    /\ pc = "kommunekode"
    /\ MayRaise(thr)
    /\ LET res == kontroller_kommunekode(queue[cur], queue[cur].data, mappingFile.rows)
       IN  /\ kommunekode' = res.ret
           /\ IF res.report = NoRep
              THEN /\ thr = "none"
                   /\ pc' = IF res.ret = None THEN "exit" ELSE "leverandoer"
                   /\ UNCHANGED <<queue, faults, exc>>
              ELSE /\ queue' = Logged(queue, Event("report", NoLev, res.report, thr))
                   /\ faults' = Count(thr)
                   /\ exc' = IF thr = "none" THEN NoExc ELSE Swallowed(Raised(thr, "report"))
                   /\ pc' = IF exc'.kind # "none" THEN "except"
                             ELSE IF res.ret = None THEN "exit" ELSE "leverandoer"
    /\ UNCHANGED <<nexusRefs, nexusRec, mappingFile, regler, run, hist,
                   aktive_leverandoerer, idx, koe_data, leverandoerer, cur,
                   leverandoer, changes>>

\* lines 81-84 and 148-158, kontroller_leverandoer: find the supplier in the
\* bulk list; if it is there, resolve it to the live record.
KontrollerLeverandoer(thr) ==
    /\ pc = "leverandoer"
    /\ MayRaise(thr)
    /\ LET i == FindLeverandoer(queue[cur].data, leverandoerer)
       IN  IF i = 0
           THEN /\ thr = "none"
                /\ pc' = "exit"
                /\ UNCHANGED <<queue, leverandoer, exc, faults>>
           ELSE IF thr = "none"
                THEN /\ leverandoer' = nexusRec[leverandoerer[i].id]
                     /\ queue' = Logged(queue, Event("hent_fra_reference",
                                                     nexusRec[leverandoerer[i].id], NoRep, thr))
                     /\ pc' = "compare"
                     /\ UNCHANGED <<exc, faults>>
                ELSE /\ queue' = Logged(queue, Event("hent_fra_reference",
                                                     [NoLev EXCEPT !.id = leverandoerer[i].id],
                                                     NoRep, thr))
                     /\ exc' = Raised(thr, "hent_fra_reference")
                     /\ faults' = faults + 1
                     /\ pc' = "except"
                     /\ UNCHANGED leverandoer
    /\ UNCHANGED <<nexusRefs, nexusRec, mappingFile, regler, run, hist,
                   aktive_leverandoerer, idx, koe_data, leverandoerer, cur,
                   kommunekode, changes>>

\* lines 86-88: if the codes differ, set the looked-up code on the live record
\* and send it to Nexus.
Opdater(thr) ==
    /\ pc = "compare"
    /\ MayRaise(thr)
    /\ IF NeedsUpdate(leverandoer, kommunekode)
       THEN /\ leverandoer' = WithKommunekode(leverandoer, kommunekode)
            /\ queue' = Logged(queue, Event("opdater_leverandoer", leverandoer', NoRep, thr))
            /\ faults' = Count(thr)
            /\ IF thr = "none"
               THEN /\ nexusRec' = [nexusRec EXCEPT ![leverandoer.id] = leverandoer']
                    /\ pc' = "track"
                    /\ exc' = exc
               ELSE /\ exc' = Raised(thr, "opdater_leverandoer")
                    /\ pc' = "except"
                    /\ nexusRec' = nexusRec
       ELSE /\ thr = "none"
            /\ pc' = "exit"
            /\ UNCHANGED <<queue, leverandoer, exc, faults, nexusRec>>
    /\ UNCHANGED <<nexusRefs, mappingFile, regler, run, hist,
                   aktive_leverandoerer, idx, koe_data, leverandoerer, cur,
                   kommunekode, changes>>

\* line 89: the tracked-task signal.
TrackTask(thr) ==
    /\ pc = "track"
    /\ MayRaise(thr)
    /\ queue' = Logged(queue, Event("track_task", NoLev, NoRep, thr))
    /\ faults' = Count(thr)
    /\ IF thr = "none"
       THEN pc' = "exit" /\ exc' = exc
       ELSE pc' = "except" /\ exc' = Raised(thr, "track_task")
    /\ UNCHANGED <<nexusRefs, nexusRec, mappingFile, regler, run, hist,
                   aktive_leverandoerer, idx, koe_data, leverandoerer, cur,
                   kommunekode, leverandoer, changes>>

\* lines 91-94: a WorkItemError is caught and fails the item; any other
\* exception goes on, out of the with block.
Except ==
    /\ pc = "except"
    /\ IF IsCaught(exc)
       THEN /\ queue' = [queue EXCEPT ![cur] = Fail(@, exc.msg)]
            /\ exc' = NoExc
       ELSE UNCHANGED <<queue, exc>>
    /\ pc' = "exit"
    /\ UNCHANGED <<nexusRefs, nexusRec, mappingFile, regler, run, hist,
                   aktive_leverandoerer, idx, koe_data, leverandoerer, cur,
                   kommunekode, leverandoer, faults, changes>>

\* A loop body without "with item:": nothing commits the item's state.
EndWithout ==
    /\ pc = "exit"
    /\ IF exc.kind = "none"
       THEN pc' = "loop" /\ UNCHANGED <<run, hist>>
       ELSE EndRun(run, "raised", exc.kind, queue[cur].data)
    /\ exc' = NoExc
    /\ UNCHANGED <<nexusRefs, nexusRec, mappingFile, regler, queue,
                   aktive_leverandoerer, idx, koe_data, leverandoerer, cur,
                   kommunekode, leverandoer, faults, changes>>

\* line 70: the with block ends.  Without an exception the loop goes on;
\* with one, the exception leaves process_workqueue and the invocation ends.
EndWith ==
    /\ pc = "exit"
    /\ queue' = [queue EXCEPT ![cur] = ItemExit(@, exc)]
    /\ IF exc.kind = "none"
       THEN pc' = "loop" /\ UNCHANGED <<run, hist>>
       ELSE EndRun(run, "raised", exc.kind, queue[cur].data)
    /\ exc' = NoExc
    /\ UNCHANGED <<nexusRefs, nexusRec, mappingFile, regler,
                   aktive_leverandoerer, idx, koe_data, leverandoerer, cur,
                   kommunekode, leverandoer, faults, changes>>

\* ---------------------------------------------------------- environment
\* Somebody else edits Nexus between two invocations: a record's municipality
\* code is rewritten, or a supplier leaves the bulk list.
NexusChange ==
    /\ changes < MaxChanges
    /\ pc = "idle"
    /\ hist # <<>>
    /\ changes' = changes + 1
    /\ \/ \E i \in Ids, code \in AreaCodes :
            /\ nexusRec[i].address.administrativeAreaCode # code
            /\ nexusRec' = [nexusRec EXCEPT ![i].address.administrativeAreaCode = code]
            /\ nexusRefs' = nexusRefs
       \/ \E i \in Ids :
            /\ \E k \in 1 .. Len(nexusRefs) : nexusRefs[k].id = i
            /\ nexusRefs' = SelectSeq(nexusRefs, LAMBDA r : r.id # i)
            /\ nexusRec' = nexusRec
    /\ UNCHANGED <<mappingFile, regler, queue, pc, run, hist,
                   aktive_leverandoerer, idx, koe_data,
                   leverandoerer, cur, kommunekode, leverandoer, exc, faults>>

Process ==
    \/ Dequeue
    \/ ProcessDone
    \/ \E thr \in Throws : KontrollerKommunekode(thr)
    \/ \E thr \in Throws : KontrollerLeverandoer(thr)
    \/ \E thr \in Throws : Opdater(thr)
    \/ \E thr \in Throws : TrackTask(thr)
    \/ Except
    \/ EndWith

Next ==
    \/ StartQueue
    \/ Populate
    \/ PopulateDone
    \/ StartProcess
    \/ Process
    \/ NexusChange

Spec == Init /\ [][Next]_vars

\* ================================================================ claims
ItemIxs == 1 .. Len(queue)

\* The item has reached a terminal state.
Settled(it) == it.status \in {"completed", "failed"}

\* The positions in the item's log of the calls of one operation.
At(it, op) == {k \in 1 .. Len(it.calls) : it.calls[k].op = op}

\* The municipality code the item's postnummer is looked up to (None: none).
Kode(it) == kontroller_kommunekode(it, it.data, mappingFile.rows).ret

\* The item's supplier was resolved, to a live record whose municipality code
\* is not / is the looked-up one.
Differs(it) ==
    /\ Kode(it) # None
    /\ \E k \in At(it, "hent_fra_reference") :
         /\ it.calls[k].raised = "none"
         /\ it.calls[k].lev.address.administrativeAreaCode # Kode(it)

Same(it) ==
    /\ Kode(it) # None
    /\ \E k \in At(it, "hent_fra_reference") :
         /\ it.calls[k].raised = "none"
         /\ it.calls[k].lev.address.administrativeAreaCode = Kode(it)

OneUpdateWithKode(it) ==
    /\ Cardinality(At(it, "opdater_leverandoer")) = 1
    /\ \A k \in At(it, "opdater_leverandoer") :
         it.calls[k].lev.address.administrativeAreaCode = Kode(it)

OneTrackAfterUpdate(it) ==
    /\ Cardinality(At(it, "track_task")) = 1
    /\ \A k \in At(it, "opdater_leverandoer"), m \in At(it, "track_task") : k < m

UpdateRaised(it) ==
    \E k \in At(it, "opdater_leverandoer") : it.calls[k].raised # "none"

\* C1 as stated: every processed item whose live municipality code differs
\* from the looked-up one K gets exactly one update call carrying K and
\* exactly one tracking signal, the update first.
C1_UpdateThenTrack_AsStated ==
    \A i \in ItemIxs :
        Settled(queue[i]) /\ Differs(queue[i])
            => OneUpdateWithKode(queue[i]) /\ OneTrackAfterUpdate(queue[i])

\* C1 amended: every processed item whose live municipality code differs from
\* the looked-up one K gets exactly one update call carrying K; when that call
\* returns, exactly one tracking signal follows it, and when it raises, no
\* tracking signal is sent.
C1_UpdateThenTrack ==
    \A i \in ItemIxs :
        Settled(queue[i]) /\ Differs(queue[i])
            => /\ OneUpdateWithKode(queue[i])
               /\ IF UpdateRaised(queue[i])
                  THEN At(queue[i], "track_task") = {}
                  ELSE OneTrackAfterUpdate(queue[i])

C1_Witness ==
    \E i \in ItemIxs :
        /\ Settled(queue[i]) /\ Differs(queue[i])
        /\ ~UpdateRaised(queue[i])
        /\ At(queue[i], "track_task") # {}

\* Four invocations from the start, populate, process, populate, process, and
\* nobody else touched Nexus.
TwoPasses ==
    /\ Len(hist) >= 4
    /\ hist[1].mode = "queue" /\ hist[2].mode = "process"
    /\ hist[3].mode = "queue" /\ hist[4].mode = "process"
    /\ changes = 0

\* The first populate and the first process ended without error, and no item
\* of the first pass was failed.
FirstPassClean ==
    /\ hist[1].outcome = "exit 0"
    /\ hist[2].outcome = "exit 0"
    /\ \A i \in ItemIxs : queue[i].by = 2 => queue[i].status = "completed"

\* The update calls that returned, over the first four invocations, for a supplier.
EffectiveUpdates(id) ==
    UNION { { <<i, k>> : k \in { m \in At(queue[i], "opdater_leverandoer") :
                                    queue[i].calls[m].raised = "none" } } :
            i \in { j \in ItemIxs : /\ queue[j].data.leverandoer_id = id
                                     /\ queue[j].by \in 1 .. 4 } }

NoWriteWhenSame ==
    \A i \in ItemIxs :
        Settled(queue[i]) /\ Same(queue[i])
            => /\ At(queue[i], "opdater_leverandoer") = {}
               /\ At(queue[i], "track_task") = {}

SecondPassIsNoOp ==
    /\ \A i \in ItemIxs :
         queue[i].by = 4 => /\ At(queue[i], "opdater_leverandoer") = {}
                            /\ At(queue[i], "track_task") = {}
    /\ \A id \in Ids : Cardinality(EffectiveUpdates(id)) <= 1

ProcessEnded == pc = "idle" /\ hist # <<>> /\ hist[Len(hist)].mode = "process"

\* C3: when the update call raises for an item, the item is failed with the
\* exception's message, and the items after it are still processed in that
\* invocation.
C3_UpdateRaises_AsStated ==
    ProcessEnded =>
        \A i \in ItemIxs :
            queue[i].by = Len(hist) /\ UpdateRaised(queue[i])
                => /\ queue[i].status = "failed"
                   /\ queue[i].message = "opdater_leverandoer"
                   /\ \A j \in ItemIxs : j > i => queue[j].status # "new"

NoWrite(it) == At(it, "opdater_leverandoer") = {} /\ At(it, "track_task") = {}

\* The item has exactly one report, of this group and with this content.
OneReport(it, rep) ==
    /\ Cardinality(At(it, "report")) = 1
    /\ \A k \in At(it, "report") : it.calls[k].rep = rep

EndedDone(it) == it.status = "completed" /\ it.ends = <<"completed">>

\* C4: a processed item without postnummer has exactly one report, of group
\* "Manglende postnummer" with its reference label, no resolve, no update, no
\* tracking signal, and ends done, not failed.
C4_MissingPostnummer ==
    \A i \in ItemIxs :
        Settled(queue[i]) /\ queue[i].data.postnummer = None
            => /\ OneReport(queue[i], [group |-> "Manglende postnummer",
                                       Leverandoer |-> queue[i].reference,
                                       Postnummer |-> None])
               /\ At(queue[i], "hent_fra_reference") = {}
               /\ NoWrite(queue[i])
               /\ EndedDone(queue[i])

C4_Witness ==
    \E i \in ItemIxs : Settled(queue[i]) /\ queue[i].data.postnummer = None

\* The mapping table has a row for the postal code, both taken as strings.
HasEntry(rows, postnummer) ==
    \E k \in 1 .. Len(rows) : Str(rows[k].Postnr) = Str(postnummer)

\* C5: a processed item whose postnummer is set but has no row in the mapping
\* table has exactly one report, of group "Postnummer uden kommunekode" with
\* its reference label and the postal code, no update, no tracking signal, and
\* ends done, not failed.
C5_UnknownPostnummer ==
    \A i \in ItemIxs :
        ( /\ Settled(queue[i])
          /\ queue[i].data.postnummer # None
          /\ ~HasEntry(mappingFile.rows, queue[i].data.postnummer) )
            => /\ OneReport(queue[i], [group |-> "Postnummer uden kommunekode",
                                       Leverandoer |-> queue[i].reference,
                                       Postnummer |-> queue[i].data.postnummer])
               /\ NoWrite(queue[i])
               /\ EndedDone(queue[i])

C5_Witness ==
    \E i \in ItemIxs :
        /\ Settled(queue[i])
        /\ queue[i].data.postnummer = PyStr(Digits(9999))
        /\ ~HasEntry(mappingFile.rows, queue[i].data.postnummer)

ReportRaised(it) == \E k \in At(it, "report") : it.calls[k].raised # "none"

\* In invocation n, no call but a report raised.
OnlyReportsRaised(n) ==
    \A i \in ItemIxs :
        queue[i].by = n =>
            \A k \in 1 .. Len(queue[i].calls) :
                queue[i].calls[k].raised # "none" => queue[i].calls[k].op = "report"

\* C6: an item whose report call raised is never failed, gets no update and no
\* tracking signal and ends done; and an invocation in which only report calls
\* raised goes through every waiting item and ends without error.
C6_ReportRaises ==
    /\ \A i \in ItemIxs :
         ReportRaised(queue[i])
            => /\ queue[i].status # "failed"
               /\ NoWrite(queue[i])
               /\ Settled(queue[i]) => EndedDone(queue[i])
    /\ ( /\ ProcessEnded
         /\ OnlyReportsRaised(Len(hist))
         /\ \E i \in ItemIxs : queue[i].by = Len(hist) /\ ReportRaised(queue[i]) )
         => /\ hist[Len(hist)].outcome = "exit 0"
            /\ \A j \in ItemIxs : queue[j].status # "new"

C6_Witness ==
    /\ ProcessEnded
    /\ \E i, j \in ItemIxs :
         /\ i < j
         /\ queue[i].by = Len(hist) /\ queue[j].by = Len(hist)
         /\ ReportRaised(queue[i]) /\ EndedDone(queue[i])
         /\ queue[i].data.postnummer # None
         /\ Settled(queue[j])

\* An item is inside the with block.
Processing == pc \in {"kommunekode", "leverandoer", "compare", "track", "except", "exit"}

\* C7: every dequeued item gets exactly one terminal state, completed or
\* failed, whichever way its processing ends; only the item being processed is
\* in progress, so the next one starts after the current one is settled.
C7_OneTerminalState ==
    \A i \in ItemIxs :
        /\ Len(queue[i].ends) <= 1
        /\ queue[i].by = 0 => queue[i].status = "new" /\ queue[i].ends = <<>>
        /\ queue[i].status = "in progress" => Processing /\ i = cur
        /\ (queue[i].by # 0 /\ ~(Processing /\ i = cur))
              => /\ Settled(queue[i])
                 /\ queue[i].ends = <<queue[i].status>>

C7_Witness ==
    \E i, j \in ItemIxs :
        /\ i < j
        /\ pc = "loop"
        /\ queue[i].by = queue[j].by
        /\ queue[i].ends = <<"failed">>
        /\ queue[j].ends = <<"completed">>

\* The listing entry of a supplier in the bulk list.
Listed(id) == {k \in 1 .. Len(nexusRefs) : nexusRefs[k].id = id}

\* The ids populate has resolved or enqueued so far in this invocation.
Touched ==
    {queue[i].data.leverandoer_id : i \in {j \in ItemIxs : queue[j].status = "new"}}
        \cup {run.resolved[k] : k \in 1 .. Len(run.resolved)}

\* C8: populate_queue enqueues nothing for a listing entry whose active field
\* is not True.
C8_OnlyActive ==
    pc = "populate" =>
        \A id \in Touched :
            /\ Listed(id) # {}
            /\ \A k \in Listed(id) : nexusRefs[k].active = "True"

C8_Witness ==
    /\ pc = "populate"
    /\ idx > Len(aktive_leverandoerer)
    /\ Touched # {}
    /\ \E k, m \in 1 .. Len(nexusRefs) :
         nexusRefs[k].active = "None" /\ nexusRefs[m].active = "True"

\* C9: populate_queue neither resolves nor enqueues a supplier whose name is
\* in the exclusion list.
C9_NotExcluded ==
    pc = "populate" =>
        \A id \in Touched :
            /\ Listed(id) # {}
            /\ \A k \in Listed(id) : nexusRefs[k].name \notin regler

C9_Witness ==
    /\ pc = "populate"
    /\ idx > Len(aktive_leverandoerer)
    /\ Touched # {}
    /\ \E k \in 1 .. Len(nexusRefs) :
         nexusRefs[k].active = "True" /\ nexusRefs[k].name \in regler

\* The suppliers populate has to enqueue, and the item each one gets.
Eligible == SelectSeq(nexusRefs, LAMBDA r : r.active = "True" /\ r.name \notin regler)

Expected ==
    [k \in 1 .. Len(Eligible) |->
        [data |-> [leverandoer_id |-> nexusRec[Eligible[k].id].id,
                   kommunekode |-> nexusRec[Eligible[k].id].address.administrativeAreaCode,
                   postnummer |-> nexusRec[Eligible[k].id].address.postalCode],
         reference |-> <<Digits(Eligible[k].id), " - ", Eligible[k].name>>]]

Waiting == SelectSeq(queue, LAMBDA it : it.status = "new")

\* populate_queue has gone through its loop without an error.
PopulateComplete == pc = "populate" /\ idx > Len(aktive_leverandoerer)

\* C10: when populate_queue completes without error on the cleared queue, the
\* waiting items are exactly one per active, non-excluded supplier, in the
\* order of the bulk list, each with the payload of that supplier's resolved
\* record and the label "<id> - <name>".
C10_OneItemPerSupplier ==
    PopulateComplete =>
        /\ Len(Waiting) = Len(Expected)
        /\ \A k \in 1 .. Len(Waiting) :
             /\ Waiting[k].data = Expected[k].data
             /\ Waiting[k].reference = Expected[k].reference

C10_Witness ==
    /\ PopulateComplete
    /\ Len(Waiting) = 1
    /\ Len(nexusRefs) > 1
    /\ \E i \in ItemIxs : queue[i].status # "new"

\* The lookup the mapping table stands for: the Kommunenr, as a str, of the
\* first row whose Postnr is the postal code, both taken as strings (None:
\* there is no such row).
LookupAsStrings(rows, postnummer) ==
    LET hits == {k \in 1 .. Len(rows) : Str(rows[k].Postnr) = Str(postnummer)}
    IN  IF hits = {}
        THEN None
        ELSE Str(rows[CHOOSE k \in hits : \A j \in hits : k <= j].Kommunenr)

\* kontroller_kommunekode has returned for the item being processed.
LookedUp == pc \in {"leverandoer", "compare", "track", "except", "exit"}

\* C11: for every mapping table and every postnummer, str or number, the
\* lookup returns the Kommunenr, as a str, of the first row whose Postnr equals
\* the postnummer as strings, and returns nothing only when there is no such
\* row.
C11_LookupNormalizesBoth_AsStated ==
    (LookedUp /\ queue[cur].data.postnummer # None)
        => kommunekode = LookupAsStrings(mappingFile.rows, queue[cur].data.postnummer)

\* While populate_queue runs, the waiting items are the ones it has enqueued:
\* the "new" partition was cleared before the first of them.
OnlyOwnItemsWait ==
    pc = "populate" =>
        /\ run.mode = "queue"
        /\ Len(Waiting) = Len(run.resolved)
        /\ \A k \in 1 .. Len(Waiting) : Waiting[k].data.leverandoer_id = run.resolved[k]

InProcess == pc = "loop" \/ Processing

\* A step of a --queue invocation touches no item that is already in the
\* queue, so it dequeues nothing and makes no update, tracking or report
\* call; a step of an invocation without the flag leaves the items' number,
\* payloads and labels as they are, so it neither clears nor enqueues.
ModeStep ==
    /\ (pc = "populate" /\ pc' = "populate")
          => /\ Len(queue') >= Len(queue)
             /\ \A i \in ItemIxs : queue'[i] = queue[i]
    /\ (pc = "idle" /\ pc' = "populate")
          => /\ \A i \in 1 .. Len(queue') : queue'[i].status # "new"
             /\ queue' = SelectSeq(queue, LAMBDA it : it.status # "new")
    /\ (InProcess \/ (pc = "idle" /\ pc' # "populate"))
          => /\ Len(queue') = Len(queue)
             /\ \A i \in ItemIxs : /\ queue'[i].data = queue[i].data
                                    /\ queue'[i].reference = queue[i].reference

\* The last invocation had the flag and has just ended: its exit code is 0.
QueueRunExits0 ==
    (pc = "idle" /\ hist # <<>> /\ hist[Len(hist)].mode = "queue")
        => hist[Len(hist)].outcome = "exit 0"

\* C12 as stated: with --queue the run clears the "new" partition before it
\* enqueues, only populates, and exits with code 0; without the flag the run
\* drains the queue and never clears it or enqueues.
C12_QueueFlag_AsStated ==
    [][OnlyOwnItemsWait' /\ ModeStep /\ QueueRunExits0']_vars

\* C12 amended: as stated, with exit code 0 when populate_queue returns; when
\* populate_queue raises, the run ends with that exception.
C12_QueueFlag ==
    [][/\ OnlyOwnItemsWait'
       /\ ModeStep
       /\ (pc = "populate" /\ pc' = "idle")
            => hist'[Len(hist')].outcome = (IF faults' = faults THEN "exit 0" ELSE "raised")]_vars

C12_Witness ==
    /\ pc = "populate"
    /\ Len(Waiting) > 0
    /\ Len(hist) >= 2
    /\ hist[Len(hist)].mode = "queue" /\ hist[Len(hist)].outcome = "exit 0"
    /\ hist[Len(hist) - 1].mode = "queue"

\* An item nobody has dequeued: it waits, with no call made for it.
Untouched(it) ==
    /\ it.status = "new"
    /\ it.by = 0
    /\ it.ends = <<>>
    /\ it.calls = <<>>

\* C13: when the mapping file cannot be loaded, process_workqueue ends with
\* the loader's exception before it dequeues: every invocation without the
\* flag ends raised, no item is ever taken, completed or failed, and no
\* report, update or tracking call is made.
C13_MappingFileMissing ==
    ~mappingFile.exists =>
        /\ ~InProcess
        /\ \A i \in ItemIxs : Untouched(queue[i])
        /\ \A k \in 1 .. Len(hist) :
              hist[k].mode = "process" =>
                  hist[k].outcome = "raised" /\ hist[k].error = "FileNotFoundError"

C13_Witness ==
    /\ ~mappingFile.exists
    /\ pc = "idle"
    /\ Len(queue) = NumSuppliers
    /\ hist # <<>>
    /\ hist[Len(hist)].mode = "process"

\* The invocations with the flag that populate_queue ended by raising.
FailedPopulates ==
    {k \in 1 .. Len(hist) : hist[k].mode = "queue" /\ hist[k].outcome = "raised"}

\* The supplier populate_queue was handling when it raised: the last one it
\* went on to resolve.
Offending(r) == r.resolved[Len(r.resolved)]

\* C14 as stated: whenever handling a supplier throws in populate_queue, at
\* any position of the list, the first included, the error that comes out is
\* a WorkItemError and its message carries the payload of that supplier.
C14_PopulateErrorNamesPayload_AsStated ==
    \A k \in FailedPopulates :
        /\ hist[k].error = "WorkItemError"
        /\ hist[k].payload.leverandoer_id = Offending(hist[k])

\* The active suppliers populate_queue handles, in the order of the list.
Handled == SelectSeq(aktive_leverandoerer, LAMBDA lev : ~IsIrrelevant(lev, regler))

\* populate_queue has just ended by raising.
PopulateJustFailed ==
    /\ pc = "idle"
    /\ hist # <<>>
    /\ hist[Len(hist)].mode = "queue"
    /\ hist[Len(hist)].outcome = "raised"

\* After a failed populate_queue: the suppliers it resolved are the handled
\* ones up to the failing one, none after it, and the waiting items are the
\* ones enqueued before the failure.
AbortedAtFailure ==
    PopulateJustFailed =>
        LET resolved == hist[Len(hist)].resolved
        IN  /\ Len(resolved) \in 1 .. Len(Handled)
            /\ \A k \in 1 .. Len(resolved) : resolved[k] = Handled[k].id
            /\ aktive_leverandoerer[idx].id = resolved[Len(resolved)]
            /\ Len(Waiting) = Len(resolved) - 1
            /\ \A k \in 1 .. Len(Waiting) : Waiting[k].data.leverandoer_id = resolved[k]

\* C15: a call that raises while populate_queue handles a supplier ends
\* populate_queue with an exception at once, the queue as it was; no supplier
\* after the failing one is resolved or enqueued, and the items enqueued
\* before the failure stay in the queue.
C15_PopulateAborts ==
    [][/\ (pc = "populate" /\ faults' # faults)
            => /\ pc' = "idle"
               /\ hist'[Len(hist')].outcome = "raised"
               /\ queue' = queue
       /\ AbortedAtFailure']_vars

C15_Witness ==
    /\ PopulateJustFailed
    /\ Len(hist[Len(hist)].resolved) = 1
    /\ Len(Handled) = NumSuppliers
    /\ Waiting = <<>>

\* The positions in the item's log of the resolves that returned a record.
Resolves(it) ==
    {k \in At(it, "hent_fra_reference") : it.calls[k].raised = "none"}

\* Every update call of the item comes after a resolve of the item that
\* returned a record whose code is not the looked-up one, and sends that
\* record with the looked-up code set.
UpdateFromLive(it) ==
    \A u \in At(it, "opdater_leverandoer") :
        \E r \in Resolves(it) :
            /\ r < u
            /\ it.calls[r].lev.address.administrativeAreaCode # Kode(it)
            /\ it.calls[u].lev =
                   [it.calls[r].lev EXCEPT !.address.administrativeAreaCode = Kode(it)]

\* Whether a settled item got an update call is decided by its resolved live
\* record alone.
DecidedByLive(it) ==
    (Settled(it) /\ Resolves(it) # {})
        => (At(it, "opdater_leverandoer") # {}
              <=> \E r \in Resolves(it) :
                     it.calls[r].lev.address.administrativeAreaCode # Kode(it))

\* C16: every update call of an item follows a resolve made while that item
\* is processed; the live record the resolve returned decides whether the
\* update is made and is the record written back, whatever municipality code
\* the item's snapshot carries.
C16_LiveRecordDecides ==
    \A i \in ItemIxs : UpdateFromLive(queue[i]) /\ DecidedByLive(queue[i])

\* The snapshot agrees with the looked-up code, the live record no longer
\* does, and the update is made.
C16_Witness ==
    \E i \in ItemIxs :
        LET it == queue[i]
        IN  /\ Settled(it)
            /\ it.data.kommunekode = Kode(it)
            /\ At(it, "opdater_leverandoer") # {}
            /\ \A u \in At(it, "opdater_leverandoer") : it.calls[u].raised = "none"

\* The invocation that fetched the bulk list now held in leverandoerer: the
\* one under way, or the last one without the flag.
ListRun ==
    IF InProcess THEN Len(hist) + 1
    ELSE LET ks == {k \in 1 .. Len(hist) : hist[k].mode = "process"}
         IN  IF ks = {} THEN 0 ELSE CHOOSE k \in ks : \A j \in ks : j <= k

\* The item was dequeued under the bulk list held, has a mapped postal code,
\* and its leverandoer_id is not in that list.
Vanished(it) ==
    /\ it.status # "new"
    /\ it.by = ListRun
    /\ Kode(it) # None
    /\ \A k \in 1 .. Len(leverandoerer) : leverandoerer[k].id # it.data.leverandoer_id

\* C17: a dequeued item with a mapped postal code whose leverandoer_id is not
\* in the bulk list gets no resolve, update, tracking or report call, is never
\* failed, and ends done.
C17_AbsentSupplierDone ==
    \A i \in ItemIxs :
        Vanished(queue[i])
            => /\ queue[i].calls = <<>>
               /\ queue[i].status \in {"in progress", "completed"}
               /\ Settled(queue[i]) => EndedDone(queue[i])

C17_Witness ==
    \E i \in ItemIxs : Vanished(queue[i]) /\ EndedDone(queue[i])

\* The positions in the item's log of the calls that raised out of the try
\* block (a report that raises is dropped inside kontroller_kommunekode).
Raisers(it) == {k \in 1 .. Len(it.calls) : it.calls[k].op # "report" /\ it.calls[k].raised # "none"}

SoftRaisers(it) == {k \in Raisers(it) : it.calls[k].raised = "WorkItemError"}

\* An item for which a WorkItemError was raised is failed, once, with that
\* error's message.
SoftErrorFails(it) ==
    \A k \in SoftRaisers(it) :
        Settled(it) => /\ it.status = "failed"
                       /\ it.ends = <<"failed">>
                       /\ it.message = it.calls[k].op

FailedByRaise(it) ==
    it.status = "failed" =>
        /\ Raisers(it) # {}
        /\ \A k \in Raisers(it) :
              /\ it.message = it.calls[k].op
              /\ it.calls[k].raised # "WorkItemError" =>
                    /\ it.by <= Len(hist)
                    /\ hist[it.by].outcome = "raised"
                    /\ hist[it.by].error = it.calls[k].raised
                    /\ hist[it.by].payload = it.data

SameButKode(a, b) ==
    /\ a.id = b.id
    /\ a.name = b.name
    /\ a.address.postalCode = b.address.postalCode

\* Every record an item sent to the update call is the record its resolve
\* returned, but for the municipality code.
UpdateKeepsRest(it) ==
    \A u \in At(it, "opdater_leverandoer"), r \in Resolves(it) :
        SameButKode(it.calls[u].lev, it.calls[r].lev)

\* C19: the record passed to the update call differs from the one the live
\* resolve returned in address.administrativeAreaCode only, so an update that
\* returns leaves id, name and postalCode of that supplier, and every other
\* supplier, as they were in Nexus; and no step of a processing run changes
\* the mapping table.
C19_UpdateFrame ==
    [][/\ \A i \in 1 .. Len(queue') : UpdateKeepsRest(queue[i])'
       /\ InProcess =>
             /\ mappingFile' = mappingFile
             /\ \A id \in Ids :
                   /\ SameButKode(nexusRec'[id], nexusRec[id])
                   /\ id # leverandoer.id => nexusRec'[id] = nexusRec[id]]_vars

C19_Witness ==
    \E i \in ItemIxs :
        \E u \in At(queue[i], "opdater_leverandoer") :
            /\ queue[i].calls[u].raised = "none"
            /\ queue[i].calls[u].lev.address.postalCode # None
            /\ queue[i].calls[u].lev.name # ""
            /\ nexusRec[queue[i].data.leverandoer_id] = queue[i].calls[u].lev

====
